---- MODULE Spec2Model ----
(***************************************************************************)
(* A model of camera_controller.py: the CameraConfig record, the pure      *)
(* geometric functions calculate_camera_angles and calculate_zoom, the     *)
(* persistence and calibration commands, and the tracking loop `run` with  *)
(* the OSC messages it sends.                                              *)
(*                                                                         *)
(* Numbers.  Python floats are modelled by exact arithmetic: positions and *)
(* the size/distance/zoom fields are integers (millimetres, zoom steps),   *)
(* the scale factors and the angles are rationals [n, d] in lowest terms   *)
(* with d > 0, and the distance sqrt(x*x + y*y) is never rounded: a value  *)
(* that depends on it is kept as the surd (a - b*sqrt(r)) / c and compared *)
(* with integers exactly.                                                  *)
(*                                                                         *)
(* Environment.  Datagrams that reach the socket while the loop is not in  *)
(* recvfrom wait in `queue`; camera_config.json holds JSON text, written   *)
(* by json.dump and read by json.load as decimal number texts.             *)
(*                                                                         *)
(* Specifications.  Spec is one invocation of the program; PersistSpec is  *)
(* a series of --calibrate invocations on the same file; MapSpec evaluates *)
(* the geometric functions over a range of configurations.                 *)
(***************************************************************************)
EXTENDS Integers, Sequences, FiniteSets, TLC

VARIABLES
    pc,         \* position of the process in main / run / calibration_mode
    argv,       \* "--calibrate" or "" : sys.argv[1] of this invocation
    config,     \* self.config, a CameraConfig (attribute name -> value)
    file,       \* camera_config.json: [state, data], data a key -> value record
    ball_pos,   \* run's local ball_pos: <<>> (None) or <<[x, y, confidence]>>
    cmd,        \* run's locals pan, tilt, zoom: <<>> or <<[pan, tilt, zoom]>>
    sent,       \* the OSC messages sent by osc_client.send_message, in order
    stop,       \* the operator's interrupt has been delivered
    exc,        \* the exception that left the loop or the process:
                \* [type, at], `at` the position where it was raised
    base,       \* Len(sent) when the current tick of run began
    ticks,      \* completed iterations of run's while loop (MapSpec:
                \* evaluations made)
    steps,      \* commands taken in calibration_mode
    lines,      \* calibration_mode's `cmd` of every prompt so far, in order
    queue,      \* the datagrams waiting in ssl_socket's receive buffer,
                \* oldest first
    prev        \* the evaluation before the last one (MapSpec only)

vars == <<pc, argv, config, file, ball_pos, cmd, sent, stop, exc, base,
          ticks, steps, lines, queue, prev>>

NoException == [type |-> "None", at |-> ""]

-----------------------------------------------------------------------------
(* Bounds of the model *)

MaxTicks == 2       \* iterations of the tracking loop per invocation
MaxCalSteps == 4    \* commands of one calibration before its exit
MaxQueue == 2       \* datagrams waiting in the socket's receive buffer
MaxEvals == 2       \* evaluations of the geometric functions (MapSpec)

-----------------------------------------------------------------------------
(* Exact arithmetic *)

Abs(i) == IF i < 0 THEN -i ELSE i

Sign(i) == IF i < 0 THEN -1 ELSE IF i = 0 THEN 0 ELSE 1

RECURSIVE GCD(_, _)
GCD(a, b) == IF b = 0 THEN a ELSE GCD(b, a % b)

\* n/d in lowest terms with a positive denominator (d # 0)
Rat(n, d) ==
    LET g == GCD(Abs(n), Abs(d))
        s == IF d < 0 THEN -1 ELSE 1
    IN [n |-> s * (n \div g), d |-> s * (d \div g)]

RatInt(i) == [n |-> i, d |-> 1]

RatMul(p, q) ==
    LET a == Rat(p.n, q.d)
        b == Rat(q.n, p.d)
    IN Rat(a.n * b.n, a.d * b.d)

\* p / q, q # 0
RatDiv(p, q) == RatMul(p, Rat(q.d, q.n))

RatLt(p, q) == p.n * q.d < q.n * p.d

RatLe(p, q) == p.n * q.d <= q.n * p.d

\* Python's int() of a float: truncation toward zero
RatTrunc(p) == IF p.n >= 0 THEN p.n \div p.d ELSE -((-p.n) \div p.d)

\* floor(sqrt(r)) for r >= 0, by bisection on lo <= sqrt(r) < hi
RECURSIVE ISqrtIn(_, _, _)
ISqrtIn(r, lo, hi) ==
    IF hi - lo <= 1 THEN lo
    ELSE LET mid == (lo + hi) \div 2
         IN IF mid * mid <= r THEN ISqrtIn(r, mid, hi) ELSE ISqrtIn(r, lo, mid)

ISqrt(r) == ISqrtIn(r, 0, IF r < 46340 THEN r + 1 ELSE 46341)

\* the sign of a - b*sqrt(r), for integers a >= 0, b > 0 and r >= 0 with
\* s = floor(sqrt(r)), without squaring a or b: with a = q*b + m, a/b and
\* sqrt(r) differ already in their integer parts unless q = s, and then
\* (s + m/b)^2 - r has the sign of 2*s*m*b + m*m - (r - s*s)*b*b.
CmpSqrtPos(a, b, r, s) ==
    LET q == a \div b
        m == a % b
    IN IF q < s THEN -1
       ELSE IF q > s THEN 1
       ELSE Sign(2 * s * m * b + m * m - (r - s * s) * b * b)

\* the sign of a - b*sqrt(r) for any integers a, b, with s = floor(sqrt(r))
CmpSqrtAt(a, b, r, s) ==
    IF b = 0 THEN Sign(a)
    ELSE IF b > 0 THEN (IF a < 0 THEN -1 ELSE CmpSqrtPos(a, b, r, s))
    ELSE -(IF a > 0 THEN -1 ELSE CmpSqrtPos(-a, -b, r, s))

CmpSqrt(a, b, r) == CmpSqrtAt(a, b, r, ISqrt(r))

\* A surd v = (a - b*sqrt(r)) / c with c > 0, and s = floor(sqrt(r)); an
\* integer i is IntSurd(i).
Surd(a, b, r, c) == [a |-> a, b |-> b, r |-> r, s |-> ISqrt(r), c |-> c]

IntSurd(i) == [a |-> i, b |-> 0, r |-> 0, s |-> 0, c |-> 1]

\* the sign of v - i
SurdCmpInt(v, i) == CmpSqrtAt(v.a - i * v.c, v.b, v.r, v.s)

\* the largest integer k in lo..hi with k <= v (lo <= v), by bisection
RECURSIVE SurdFloorIn(_, _, _)
SurdFloorIn(v, lo, hi) ==
    IF lo = hi THEN lo
    ELSE LET mid == (lo + hi + 1) \div 2
         IN IF SurdCmpInt(v, mid) >= 0 THEN SurdFloorIn(v, mid, hi)
            ELSE SurdFloorIn(v, lo, mid - 1)

\* Python's int() of a surd v with lo <= v <= hi: truncation toward zero,
\* the floor of v >= 0 and the ceiling of v < 0
SurdTrunc(v, lo, hi) ==
    IF v.b = 0 /\ v.c = 1 THEN v.a
    ELSE LET floor == SurdFloorIn(v, lo - 1, hi)
         IN IF SurdCmpInt(v, 0) >= 0 \/ SurdCmpInt(v, floor) = 0 THEN floor
            ELSE floor + 1

\* Python's min(a, b) and max(a, b): the first argument unless the second is
\* strictly smaller (larger)
PyMin(a, b) == IF RatLt(b, a) THEN b ELSE a

PyMax(a, b) == IF RatLt(a, b) THEN b ELSE a

-----------------------------------------------------------------------------
(* CameraConfig *)

\* the camera's pan and tilt travel in degrees
MaxPan == 129

MaxTilt == 59

DefaultConfig ==
    [field_width |-> 6000, field_height |-> 4000,
     pan_scale |-> RatInt(1), tilt_scale |-> RatInt(1),
     min_zoom |-> 0, max_zoom |-> 100,
     min_distance |-> 1000, max_distance |-> 5000]

\* the invariant the data model states for a CameraConfig; the code has no
\* check of it
ConfigValid(c) ==
    /\ c.field_width > 0 /\ c.field_height > 0
    /\ c.pan_scale.n > 0 /\ c.tilt_scale.n > 0
    /\ 0 <= c.min_zoom /\ c.min_zoom <= c.max_zoom
    /\ 0 < c.min_distance /\ c.min_distance < c.max_distance

-----------------------------------------------------------------------------
(* The geometric functions *)

\* x / (field_width/2) and y / (field_height/2) raise ZeroDivisionError
AnglesRaises(c) == c.field_width = 0 \/ c.field_height = 0

\* a clamp that forgets the lower limit
clamp_pan_upper(pan_angle) == PyMin(RatInt(MaxPan), pan_angle)

clamp_pan(pan_angle) == PyMax(RatInt(-MaxPan), PyMin(RatInt(MaxPan), pan_angle))

clamp_tilt(tilt_angle) == PyMax(RatInt(-MaxTilt), PyMin(RatInt(MaxTilt), tilt_angle))

\* a normalisation by the full field extent instead of the half extent
calculate_camera_angles_full(c, x, y) ==
    LET rel_x == RatDiv(RatInt(x), RatInt(c.field_width))
        rel_y == RatDiv(RatInt(y), RatInt(c.field_height))
        pan_angle == RatMul(RatMul(rel_x, RatInt(MaxPan)), c.pan_scale)
        tilt_angle == RatMul(RatMul(rel_y, RatInt(MaxTilt)), c.tilt_scale)
    IN [pan |-> clamp_pan(pan_angle), tilt |-> clamp_tilt(tilt_angle)]

calculate_camera_angles(c, x, y) ==
    LET rel_x == RatDiv(RatInt(x), Rat(c.field_width, 2))
        rel_y == RatDiv(RatInt(y), Rat(c.field_height, 2))
        pan_angle == RatMul(RatMul(rel_x, RatInt(MaxPan)), c.pan_scale)
        tilt_angle == RatMul(RatMul(rel_y, RatInt(MaxTilt)), c.tilt_scale)
    IN [pan |-> clamp_pan(pan_angle), tilt |-> clamp_tilt(tilt_angle)]

\* distance <= d and distance >= d for distance = sqrt(r)
DistanceLe(r, d) == CmpSqrt(d, 1, r) >= 0

DistanceGe(r, d) == CmpSqrt(d, 1, r) <= 0

\* branch tests with < and > in place of <= and >=
ZoomBranchStrict(c, r) ==
    IF ~DistanceGe(r, c.min_distance) THEN "near"
    ELSE IF ~DistanceLe(r, c.max_distance) THEN "far"
    ELSE "interpolated"

\* the branch of calculate_zoom taken at squared distance r
ZoomBranch(c, r) ==
    IF DistanceLe(r, c.min_distance) THEN "near"
    ELSE IF DistanceGe(r, c.max_distance) THEN "far"
    ELSE "interpolated"

\* the division by distance_range raises ZeroDivisionError
ZoomRaises(c, x, y) ==
    /\ ZoomBranch(c, x * x + y * y) = "interpolated"
    /\ c.max_distance - c.min_distance = 0

\* an interpolation that grows with the distance:
\* min_zoom + zoom_range * (distance - min_distance) / distance_range
InterpolateRising(c, r) ==
    LET zoom_range == c.max_zoom - c.min_zoom
        distance_range == c.max_distance - c.min_distance
        a == c.min_zoom * distance_range - zoom_range * c.min_distance
    IN IF distance_range > 0 THEN Surd(a, -zoom_range, r, distance_range)
       ELSE Surd(-a, zoom_range, r, -distance_range)

\* max_zoom - zoom_range * (distance - min_distance) / distance_range as
\* (max_zoom*dr + zr*min_distance - zr*distance) / dr, for dr # 0
Interpolate(c, r) ==
    LET zoom_range == c.max_zoom - c.min_zoom
        distance_range == c.max_distance - c.min_distance
        a == c.max_zoom * distance_range + zoom_range * c.min_distance
    IN IF distance_range > 0 THEN Surd(a, zoom_range, r, distance_range)
       ELSE Surd(-a, -zoom_range, r, -distance_range)

\* int(max(min_zoom, min(max_zoom, zoom)))
clamp_zoom(c, zoom) ==
    LET inner == IF SurdCmpInt(zoom, c.max_zoom) < 0 THEN zoom
                 ELSE IntSurd(c.max_zoom)
        outer == IF SurdCmpInt(inner, c.min_zoom) > 0 THEN inner
                 ELSE IntSurd(c.min_zoom)
        lo == IF c.min_zoom < c.max_zoom THEN c.min_zoom ELSE c.max_zoom
        hi == IF c.min_zoom < c.max_zoom THEN c.max_zoom ELSE c.min_zoom
    IN SurdTrunc(outer, IF lo < 0 THEN lo ELSE 0, IF hi > 0 THEN hi ELSE 0)

\* a far branch that returns max_zoom
calculate_zoom_far_max(c, x, y) ==
    LET r == x * x + y * y
        branch == ZoomBranch(c, r)
    IN IF branch = "near" THEN c.max_zoom
       ELSE IF branch = "far" THEN c.max_zoom
       ELSE clamp_zoom(c, Interpolate(c, r))

calculate_zoom(c, x, y) ==
    LET r == x * x + y * y
        branch == ZoomBranch(c, r)
    IN IF branch = "near" THEN c.max_zoom
       ELSE IF branch = "far" THEN c.min_zoom
       ELSE clamp_zoom(c, Interpolate(c, r))

\* a threshold that admits 0.5 itself
should_track_inclusive(confidence) == RatLe(Rat(1, 2), confidence)

\* `confidence > 0.5`
should_track(confidence) == RatLt(Rat(1, 2), confidence)

-----------------------------------------------------------------------------
(* Inputs: persisted files, datagrams, calibration input lines *)

Missing == [state |-> "missing", data |-> <<>>]

CorruptFile == [state |-> "corrupt", data |-> <<>>]

\* a file that holds a JSON object, data its text: key -> number text
Saved(data) == [state |-> "ok", data |-> data]

\* records an operator or an earlier version may have left in
\* camera_config.json: partial ones, and ones the data model forbids
Records ==
    { [pan_scale |-> Rat(11, 10)],
      [min_zoom |-> 10, max_zoom |-> 50, min_distance |-> 500, max_distance |-> 3000],
      [max_distance |-> 1000],
      [pan_scale |-> RatInt(0)],
      [field_width |-> 0],
      [zoom_speed |-> 5] }

\* the attributes that hold floats with a fractional part; the others hold
\* whole numbers
ScaleFields == {"pan_scale", "tilt_scale"}

\* the least p >= from such that d divides 10^p
RECURSIVE DecimalPlaces(_, _)
DecimalPlaces(d, from) ==
    IF (10 ^ from) % d = 0 THEN from ELSE DecimalPlaces(d, from + 1)

\* a float written with two decimals, as the f"{...:.2f}" of the scale
\* print-out does
FloatText2f(v) ==
    [digits |-> (200 * v.n + v.d) \div (2 * v.d), places |-> 2]

\* json.dump of a float: float.__repr__, the shortest decimal that reads
\* back as the same value, with at least one digit after the point
FloatText(v) ==
    LET p == DecimalPlaces(v.d, 1)
    IN [digits |-> v.n * ((10 ^ p) \div v.d), places |-> p]

\* json.dump of a whole number: its decimal digits, no point
IntText(i) == [digits |-> i, places |-> 0]

\* json.dump(vars(self.config), f): every attribute of the object
json_dump(c) ==
    [k \in DOMAIN c |-> IF k \in ScaleFields THEN FloatText(c[k]) ELSE IntText(c[k])]

\* json.load(f): a number without a point is an int, one with a point a
\* float
json_load(text) ==
    [k \in DOMAIN text |->
        IF text[k].places = 0 THEN text[k].digits
        ELSE Rat(text[k].digits, 10 ^ text[k].places)]

Files == {Missing, CorruptFile} \cup {Saved(json_dump(r)) : r \in Records}

Ball(x, y, confidence) == [x |-> x, y |-> y, confidence |-> confidence]

\* the balls of the SSL_DetectionFrame a datagram decodes to
Frames ==
    { <<>>,
      <<Ball(3000, 0, Rat(9, 10))>>,
      <<Ball(0, 0, Rat(6, 10))>>,
      <<Ball(0, 0, Rat(5, 10))>>,
      <<Ball(1234, 2000, Rat(4, 10))>>,
      <<Ball(-9000, 4000, Rat(51, 100))>>,
      <<Ball(1000, 0, Rat(3, 10)), Ball(2000, 1000, Rat(8, 10))>> }

Datagrams == {[ok |-> TRUE, balls |-> f] : f \in Frames}
                \cup {[ok |-> FALSE, balls |-> <<>>]}

\* the datagrams that arrive while the loop is busy with an earlier one
Backlog ==
    { [ok |-> TRUE, balls |-> <<Ball(3000, 0, Rat(9, 10))>>],
      [ok |-> TRUE, balls |-> <<Ball(0, 0, Rat(6, 10))>>] }

\* what the operator types at the prompt
Inputs == {"pan+", "pan-", "tilt+", "tilt-", "save", "exit", "zoom+", "PAN+"}

-----------------------------------------------------------------------------
(* OSC messages *)

Msg(address, args) == [address |-> address, args |-> args]

Connected == Msg("/OBSBOT/WebCam/General/Connected", <<1>>)

SelectDevice == Msg("/OBSBOT/WebCam/General/SelectDevice", <<0>>)

ResetGimbal == Msg("/OBSBOT/WebCam/General/ResetGimbal", <<1>>)

SetGimMotorDegree(pan, tilt) ==
    Msg("/OBSBOT/WebCam/General/SetGimMotorDegree",
        <<90, RatTrunc(pan), RatTrunc(tilt)>>)

SetZoom(zoom) == Msg("/OBSBOT/WebCam/General/SetZoom", <<zoom>>)

Disconnected == Msg("/OBSBOT/WebCam/General/Disconnected", <<1>>)

IsGim(m) == m.address = "/OBSBOT/WebCam/General/SetGimMotorDegree"

IsZoom(m) == m.address = "/OBSBOT/WebCam/General/SetZoom"

-----------------------------------------------------------------------------
(* Exceptions.  What can be raised, and where: a datagram that does not    *)
(* parse (inside receive_ssl_frame), a division by zero in the two          *)
(* calculations (decided by the config), a send_message of move_camera     *)
(* that fails, a corrupt camera_config.json, and the operator's interrupt, *)
(* delivered at most once.  The three sends of initialize_camera and the   *)
(* send of the Disconnected message are taken to succeed.                  *)

\* the positions inside run's try block
InTry == {"recv", "check", "move", "zoom", "sleep"}

\* a bare `except:` in receive_ssl_frame, which catches BaseException too
ReceiveCatchesAll(type) == TRUE

\* `except Exception` in receive_ssl_frame: KeyboardInterrupt derives from
\* BaseException only
ReceiveCatches(type) == type # "KeyboardInterrupt"

\* `except KeyboardInterrupt` in run
RunCatches(type) == type = "KeyboardInterrupt"

\* an exception of `type` raised at position `at`, not handled there
Raise(type, at) ==
    /\ exc' = [type |-> type, at |-> at]
    /\ pc' = IF at \in InTry /\ RunCatches(type) THEN "handler" ELSE "crashed"

-----------------------------------------------------------------------------
(* main, __init__, load_calibration *)

Init ==
    /\ pc = "main"
    /\ argv \in {"--calibrate", ""}
    /\ config = DefaultConfig
    /\ file \in Files
    /\ ball_pos = <<>>
    /\ cmd = <<>>
    /\ sent = <<>>
    /\ stop = FALSE
    /\ exc = NoException
    /\ base = 0
    /\ ticks = 0
    /\ steps = 0
    /\ lines = <<>>
    /\ queue = <<>>
    /\ prev = <<>>

\* BallTrackingCamera(config): initialize_camera sends the three messages
initialize_camera ==
    /\ pc = "main"
    /\ sent' = sent \o <<Connected, SelectDevice, ResetGimbal>>
    /\ pc' = "load"
    /\ UNCHANGED <<argv, config, file, ball_pos, cmd, stop, exc, base, ticks,
                   steps, prev, queue, lines>>

\* setattr(self.config, key, value) for every item of the record
Merge(c, data) ==
    [k \in DOMAIN c \cup DOMAIN data |-> IF k \in DOMAIN data THEN data[k] ELSE c[k]]

load_calibration ==
    /\ pc = "load"
    /\ \/ /\ file.state = "ok"
          /\ config' = Merge(config, json_load(file.data))
          /\ pc' = "select"
          /\ UNCHANGED exc
       \/ /\ file.state = "missing"
          /\ pc' = "select"
          /\ UNCHANGED <<config, exc>>
       \/ /\ file.state = "corrupt"
          /\ Raise("JSONDecodeError", "load")
          /\ UNCHANGED config
    /\ UNCHANGED <<argv, file, ball_pos, cmd, sent, stop, base, ticks, steps,
                   prev, queue, lines>>

\* a main that starts the tracking loop whatever the arguments
select_mode_run ==
    /\ pc = "select"
    /\ pc' = "run"
    /\ UNCHANGED <<argv, config, file, ball_pos, cmd, sent, stop, exc, base,
                   ticks, steps, lines, queue, prev>>

\* `if len(sys.argv) > 1 and sys.argv[1] == "--calibrate"`
select_mode ==
    /\ pc = "select"
    /\ pc' = IF argv = "--calibrate" THEN "prompt" ELSE "run"
    /\ UNCHANGED <<argv, config, file, ball_pos, cmd, sent, stop, exc, base,
                   ticks, steps, prev, queue, lines>>

-----------------------------------------------------------------------------
(* calibration_mode *)

save_calibration(c) == Saved(json_dump(c))

\* a calibration whose pan- and tilt- undo pan+ and tilt+ exactly
CalibrateInverse(c, line) ==
    IF line = "pan+" THEN [c EXCEPT !.pan_scale = RatMul(@, Rat(11, 10))]
    ELSE IF line = "pan-" THEN [c EXCEPT !.pan_scale = RatMul(@, Rat(10, 11))]
    ELSE IF line = "tilt+" THEN [c EXCEPT !.tilt_scale = RatMul(@, Rat(11, 10))]
    ELSE IF line = "tilt-" THEN [c EXCEPT !.tilt_scale = RatMul(@, Rat(10, 11))]
    ELSE c

\* a calibration in which the pan commands scale the tilt as well
CalibrateCoupled(c, line) ==
    IF line = "pan+"
    THEN [c EXCEPT !.pan_scale = RatMul(@, Rat(11, 10)),
                   !.tilt_scale = RatMul(@, Rat(11, 10))]
    ELSE IF line = "pan-"
    THEN [c EXCEPT !.pan_scale = RatMul(@, Rat(9, 10)),
                   !.tilt_scale = RatMul(@, Rat(9, 10))]
    ELSE IF line = "tilt+" THEN [c EXCEPT !.tilt_scale = RatMul(@, Rat(11, 10))]
    ELSE IF line = "tilt-" THEN [c EXCEPT !.tilt_scale = RatMul(@, Rat(9, 10))]
    ELSE c

\* the config after one input line
Calibrate(c, line) ==
    IF line = "pan+" THEN [c EXCEPT !.pan_scale = RatMul(@, Rat(11, 10))]
    ELSE IF line = "pan-" THEN [c EXCEPT !.pan_scale = RatMul(@, Rat(9, 10))]
    ELSE IF line = "tilt+" THEN [c EXCEPT !.tilt_scale = RatMul(@, Rat(11, 10))]
    ELSE IF line = "tilt-" THEN [c EXCEPT !.tilt_scale = RatMul(@, Rat(9, 10))]
    ELSE c

\* str.lower() on the inputs of the model
Lower(line) == IF line = "PAN+" THEN "pan+" ELSE line

\* one iteration of the loop: cmd = input("> ").lower() and its branch
calibration_mode(line) ==
    /\ pc = "prompt"
    /\ Lower(line) # "exit" => steps < MaxCalSteps
    /\ lines' = Append(lines, Lower(line))
    /\ config' = Calibrate(config, Lower(line))
    /\ file' = IF Lower(line) = "save" THEN save_calibration(config) ELSE file
    /\ pc' = IF Lower(line) = "exit" THEN "returned" ELSE "prompt"
    /\ steps' = IF Lower(line) # "exit" THEN steps + 1 ELSE steps
    /\ UNCHANGED <<argv, ball_pos, cmd, sent, stop, exc, base, ticks, prev,
                   queue>>

-----------------------------------------------------------------------------
(* run: the tracking loop *)

\* max(frame.balls, key=lambda b: b.confidence): the first ball of the
\* largest confidence
RECURSIVE MaxBall(_)
MaxBall(balls) ==
    IF Len(balls) = 1 THEN balls[1]
    ELSE LET rest == MaxBall(Tail(balls))
         IN IF RatLt(balls[1].confidence, rest.confidence) THEN rest ELSE balls[1]

\* what receive_ssl_frame returns for a datagram that decodes
receive_ssl_frame(datagram) ==
    IF datagram.balls # <<>> THEN <<MaxBall(datagram.balls)>> ELSE <<>>

\* print("Starting ball tracking...") and entry of the try block
start_run ==
    /\ pc = "run"
    /\ pc' = "recv"
    /\ base' = Len(sent)
    /\ UNCHANGED <<argv, config, file, ball_pos, cmd, sent, stop, exc, ticks,
                   steps, prev, queue, lines>>

\* a datagram reaches the bound socket while the loop is not in recvfrom:
\* the kernel appends it to the socket's receive buffer
arrive(datagram) ==
    /\ pc \in {"run", "check", "move", "zoom", "sleep"}
    /\ Len(queue) < MaxQueue
    /\ queue' = Append(queue, datagram)
    /\ UNCHANGED <<pc, argv, config, file, ball_pos, cmd, sent, stop, exc,
                   base, ticks, steps, prev, lines>>

\* ball_pos = self.receive_ssl_frame(): one recvfrom(2048), which returns
\* the oldest datagram of the receive buffer and removes it, or, when the
\* buffer is empty, blocks until a datagram arrives and returns that one;
\* the datagram is then decoded.  A datagram that does not parse raises
\* DecodeError inside receive_ssl_frame.
receive(datagram) ==
    /\ pc = "recv"
    /\ queue # <<>> => datagram = Head(queue)
    /\ queue' = IF queue # <<>> THEN Tail(queue) ELSE queue
    /\ IF datagram.ok
       THEN /\ ball_pos' = receive_ssl_frame(datagram)
            /\ pc' = "check"
            /\ UNCHANGED exc
       ELSE IF ReceiveCatches("DecodeError")
       THEN /\ ball_pos' = <<>>
            /\ pc' = "check"
            /\ UNCHANGED exc
       ELSE /\ Raise("DecodeError", "recv")
            /\ UNCHANGED ball_pos
    /\ cmd' = <<>>
    /\ UNCHANGED <<argv, config, file, sent, stop, base, ticks, steps, prev,
                   lines>>

\* `if ball_pos:` and `if confidence > 0.5:`
Accepted(pos) == pos # <<>> /\ should_track(pos[1].confidence)

\* the first exception the two calculations raise at (x, y), or "None"
ComputeRaises(c, x, y) ==
    IF AnglesRaises(c) \/ ZoomRaises(c, x, y) THEN "ZeroDivisionError" ELSE "None"

\* a zoom computed from the clamped angles instead of the raw position
ComputeFromAngles(c, x, y) ==
    LET angles == calculate_camera_angles(c, x, y)
    IN [pan |-> angles.pan, tilt |-> angles.tilt,
        zoom |-> calculate_zoom(c, RatTrunc(angles.pan), RatTrunc(angles.tilt))]

\* pan, tilt = calculate_camera_angles(x, y); zoom = calculate_zoom(x, y)
Compute(c, x, y) ==
    LET angles == calculate_camera_angles(c, x, y)
    IN [pan |-> angles.pan, tilt |-> angles.tilt, zoom |-> calculate_zoom(c, x, y)]

\* the two tests on ball_pos and, for an accepted detection, the calculations
track ==
    /\ pc = "check"
    /\ IF ~Accepted(ball_pos)
       THEN /\ pc' = "sleep"
            /\ UNCHANGED <<cmd, exc>>
       ELSE LET x == ball_pos[1].x
                y == ball_pos[1].y
            IN IF ComputeRaises(config, x, y) # "None"
               THEN /\ Raise(ComputeRaises(config, x, y), "check")
                    /\ UNCHANGED cmd
               ELSE /\ cmd' = <<Compute(config, x, y)>>
                    /\ pc' = "move"
                    /\ UNCHANGED exc
    /\ UNCHANGED <<argv, config, file, ball_pos, sent, stop, base, ticks,
                   steps, prev, queue, lines>>

\* move_camera, first send_message
send_gim ==
    /\ pc = "move"
    /\ sent' = Append(sent, SetGimMotorDegree(cmd[1].pan, cmd[1].tilt))
    /\ pc' = "zoom"
    /\ UNCHANGED <<argv, config, file, ball_pos, cmd, stop, exc, base, ticks,
                   steps, prev, queue, lines>>

\* move_camera, second send_message
send_zoom ==
    /\ pc = "zoom"
    /\ sent' = Append(sent, SetZoom(cmd[1].zoom))
    /\ pc' = "sleep"
    /\ UNCHANGED <<argv, config, file, ball_pos, cmd, stop, exc, base, ticks,
                   steps, prev, queue, lines>>

\* a send_message of move_camera raises (the socket reports an error); the
\* message is not sent
send_fails ==
    /\ pc \in {"move", "zoom"}
    /\ Raise("OSError", pc)
    /\ UNCHANGED <<argv, config, file, ball_pos, cmd, sent, stop, base, ticks,
                   steps, prev, queue, lines>>

\* time.sleep(0.016) and the next iteration
sleep ==
    /\ pc = "sleep"
    /\ ticks < MaxTicks
    /\ ticks' = ticks + 1
    /\ base' = Len(sent)
    /\ pc' = "recv"
    /\ UNCHANGED <<argv, config, file, ball_pos, cmd, sent, stop, exc, steps,
                   prev, queue, lines>>

\* the operator's interrupt (SIGINT), delivered once per invocation at any
\* position of the running process.  Inside receive_ssl_frame it passes
\* that function's handler unless the handler catches it, in which case the
\* call returns None.
keyboard_interrupt ==
    /\ pc \in {"main", "load", "select", "prompt", "run"} \cup InTry
    /\ ~stop
    /\ stop' = TRUE
    /\ IF pc = "recv" /\ ReceiveCatches("KeyboardInterrupt")
       THEN /\ ball_pos' = <<>>
            /\ pc' = "check"
            /\ UNCHANGED exc
       ELSE /\ Raise("KeyboardInterrupt", pc)
            /\ UNCHANGED ball_pos
    /\ UNCHANGED <<argv, config, file, cmd, sent, base, ticks, steps, prev,
                   queue, lines>>

\* the except clause of run: the Disconnected message, then run returns
disconnect ==
    /\ pc = "handler"
    /\ sent' = Append(sent, Disconnected)
    /\ pc' = "returned"
    /\ UNCHANGED <<argv, config, file, ball_pos, cmd, stop, exc, base, ticks,
                   steps, prev, queue, lines>>

Next ==
    \/ initialize_camera
    \/ load_calibration
    \/ select_mode
    \/ \E line \in Inputs : calibration_mode(line)
    \/ start_run
    \/ \E datagram \in Backlog : arrive(datagram)
    \/ \E datagram \in Datagrams : receive(datagram)
    \/ track
    \/ send_gim
    \/ send_zoom
    \/ send_fails
    \/ sleep
    \/ keyboard_interrupt
    \/ disconnect

Spec == Init /\ [][Next]_vars

-----------------------------------------------------------------------------
(* Calibration over several invocations: the program is started with       *)
(* --calibrate, the operator adjusts, saves and exits, and the program is   *)
(* started again on the file the earlier invocation left.                  *)

PersistInit ==
    /\ Init
    /\ argv = "--calibrate"

\* the next invocation, after one whose last two commands were save and
\* exit: a new process with a new CameraConfig(); the file stays.  prev
\* keeps the config the earlier process had when it saved.
restart ==
    /\ pc = "returned"
    /\ Len(lines) >= 2
    /\ lines[Len(lines) - 1] = "save"
    /\ pc' = "main"
    /\ config' = DefaultConfig
    /\ sent' = <<>>
    /\ lines' = <<>>
    /\ prev' = <<config>>
    /\ UNCHANGED <<argv, file, ball_pos, cmd, stop, exc, base, ticks, steps,
                   queue>>

PersistNext ==
    \/ initialize_camera
    \/ load_calibration
    \/ select_mode
    \/ \E line \in Inputs : calibration_mode(line)
    \/ restart

PersistSpec == PersistInit /\ [][PersistNext]_vars

-----------------------------------------------------------------------------
(* The geometric functions on their own: a configuration is fixed and the   *)
(* two functions are evaluated at one position after another.               *)

\* configurations that differ from the default in the scales, in the zoom
\* and distance thresholds, or in the field size; some break the data
\* model's invariant
MapScales ==
    { <<RatInt(1), RatInt(1)>>, <<Rat(11, 10), Rat(9, 10)>>,
      <<Rat(99, 100), Rat(121, 100)>>, <<RatInt(3), Rat(1, 2)>>,
      <<RatInt(0), RatInt(-1)>>, <<RatInt(-2), RatInt(0)>> }

MapZooms == { <<0, 100>>, <<10, 50>>, <<7, 7>>, <<0, 1>>, <<100, 0>> }

MapDistances ==
    { <<1000, 5000>>, <<500, 3000>>, <<2999, 3001>>, <<2000, 2000>>,
      <<5000, 1000>> }

MapFields == { <<6000, 4000>>, <<9000, 6000>>, <<0, 4000>> }

MapConfigs ==
    { [DefaultConfig EXCEPT !.pan_scale = s[1], !.tilt_scale = s[2],
                            !.field_width = f[1], !.field_height = f[2]] :
      s \in MapScales, f \in MapFields }
    \cup
    { [DefaultConfig EXCEPT !.min_zoom = z[1], !.max_zoom = z[2],
                            !.min_distance = d[1], !.max_distance = d[2]] :
      z \in MapZooms, d \in MapDistances }

MapPositions ==
    { <<0, 0>>, <<300, -400>>, <<600, 800>>, <<1000, 1>>, <<707, 707>>,
      <<0, -1234>>, <<-2000, 1000>>, <<2999, 0>>, <<3000, 0>>, <<-3000, 0>>,
      <<0, 3001>>, <<3000, 2000>>, <<-3000, -2000>>, <<3000, 4000>>,
      <<4999, 0>>, <<4500, -3000>>, <<-9000, 4000>>, <<20000, -20000>>,
      <<1200, -1600>> }

MapInit ==
    /\ pc = "map"
    /\ argv = ""
    /\ config \in MapConfigs
    /\ file = Missing
    /\ ball_pos = <<>>
    /\ cmd = <<>>
    /\ sent = <<>>
    /\ stop = FALSE
    /\ exc = NoException
    /\ base = 0
    /\ ticks = 0
    /\ steps = 0
    /\ lines = <<>>
    /\ queue = <<>>
    /\ prev = <<>>

\* one evaluation of both functions at (x, y); the evaluation before it is
\* kept in prev
map_compute(x, y) ==
    /\ pc = "map"
    /\ ticks < MaxEvals
    /\ ComputeRaises(config, x, y) = "None"
    /\ ticks' = ticks + 1
    /\ ball_pos' = <<Ball(x, y, RatInt(1))>>
    /\ cmd' = <<Compute(config, x, y)>>
    /\ prev' = IF cmd = <<>> THEN <<>>
               ELSE <<[x |-> ball_pos[1].x, y |-> ball_pos[1].y,
                       zoom |-> cmd[1].zoom]>>
    /\ UNCHANGED <<pc, argv, config, file, sent, stop, exc, base, steps, queue,
                   lines>>

\* an evaluation that raises
map_raises(x, y) ==
    /\ pc = "map"
    /\ ticks < MaxEvals
    /\ ComputeRaises(config, x, y) # "None"
    /\ exc' = [type |-> ComputeRaises(config, x, y), at |-> "map"]
    /\ pc' = "crashed"
    /\ UNCHANGED <<argv, config, file, ball_pos, cmd, sent, stop, base, ticks,
                   steps, prev, queue, lines>>

MapNext ==
    \/ \E p \in MapPositions : map_compute(p[1], p[2])
    \/ \E p \in MapPositions : map_raises(p[1], p[2])

MapSpec == MapInit /\ [][MapNext]_vars

-----------------------------------------------------------------------------
(* Properties of the tracking loop (checked under Spec) *)

\* a detection whose confidence is strictly greater than 0.5
Confident(pos) == pos # <<>> /\ 2 * pos[1].confidence.n > pos[1].confidence.d

\* the messages sent since the current tick began
TickMessages == SubSeq(sent, base + 1, Len(sent))

IsCommand(m) == IsGim(m) \/ IsZoom(m)

\* C1: a tick of run dispatches a camera command if and only if
\* receive_ssl_frame returned a detection with confidence > 0.5.  While the
\* loop waits for a datagram nothing has been sent in the tick; in a tick
\* whose detection is missing or has confidence <= 0.5 (0.5 included) no
\* SetGimMotorDegree and no SetZoom is ever sent; a tick that reaches its
\* sleep with a confident detection has sent exactly the pair
\* SetGimMotorDegree, SetZoom.
DispatchIffConfident ==
    /\ pc = "recv" => TickMessages = <<>>
    /\ (pc \in InTry \ {"recv"} /\ ~Confident(ball_pos)) => TickMessages = <<>>
    /\ ~Confident(ball_pos) =>
          \A i \in 1..Len(TickMessages) : ~IsCommand(TickMessages[i])
    /\ (pc = "sleep" /\ Confident(ball_pos)) =>
          /\ Len(TickMessages) = 2
          /\ IsGim(TickMessages[1])
          /\ IsZoom(TickMessages[2])

\* C1 witness: in the second tick a detection of confidence exactly 0.5 was
\* dropped, after a first tick that dispatched a command
ThresholdDetectionDropped ==
    /\ pc = "sleep"
    /\ ticks = 1
    /\ ball_pos = <<Ball(0, 0, Rat(1, 2))>>
    /\ base = 5
    /\ Len(sent) = 5

\* C2: dispatch is atomic: every SetGimMotorDegree in the log is directly
\* followed by its SetZoom, or is the last message while move_camera is
\* about to send the SetZoom; no other state has one without the other.
DispatchAtomic ==
    \A i \in 1..Len(sent) :
        IsGim(sent[i]) =>
            \/ i < Len(sent) /\ IsZoom(sent[i + 1])
            \/ i = Len(sent) /\ pc = "zoom"

\* the number of Disconnected messages in a log
RECURSIVE CountDisconnected(_)
CountDisconnected(log) ==
    IF log = <<>> THEN 0
    ELSE (IF Head(log) = Disconnected THEN 1 ELSE 0) + CountDisconnected(Tail(log))

\* C3: when the stop signal arrives at any position of the running loop
\* (blocked in the receive, between receive and dispatch, inside the
\* dispatch, in the sleep), the loop is left for the handler without sending
\* anything; the handler's one step sends Disconnected and run returns; a
\* run that has returned after the signal has sent exactly one Disconnected,
\* and it is the last message of the log, so no camera command follows it.
StopSignalDisconnects ==
    /\ [][(pc \in InTry /\ ~stop /\ stop') =>
              (pc' = "handler" /\ sent' = sent)]_vars
    /\ [][pc = "handler" =>
              (pc' = "returned" /\ sent' = Append(sent, Disconnected))]_vars
    /\ [](\A i \in 1..Len(sent) : sent[i] = Disconnected => i = Len(sent))
    /\ []((pc \in {"handler", "returned"} /\ argv # "--calibrate") => stop)
    /\ []((pc = "returned" /\ stop) =>
              (CountDisconnected(sent) = 1 /\ sent[Len(sent)] = Disconnected))

\* C3 witness: the signal arrived while the second tick was blocked in the
\* receive, and run has returned
StoppedInReceive ==
    /\ pc = "returned"
    /\ stop
    /\ exc = [type |-> "KeyboardInterrupt", at |-> "recv"]
    /\ ticks = 1
    /\ sent[Len(sent)] = Disconnected

\* C4: no failure inside a tick ends the loop: whenever the loop has been
\* left by an exception raised inside it, that exception is the stop signal.
OnlyStopEndsLoop ==
    (pc \in {"handler", "returned", "crashed"} /\ exc.at \in InTry) =>
        exc.type = "KeyboardInterrupt"

\* C9 (as stated): the command of a tick carries the pan and the tilt that
\* calculate_camera_angles returns for the detection, and the zoom of
\* calculate_zoom.
CommandCarriesAngles ==
    (pc = "sleep" /\ Confident(ball_pos)) =>
        LET x == ball_pos[1].x
            y == ball_pos[1].y
            angles == calculate_camera_angles(config, x, y)
        IN /\ RatInt(TickMessages[1].args[2]) = angles.pan
           /\ RatInt(TickMessages[1].args[3]) = angles.tilt
           /\ TickMessages[2].args = <<calculate_zoom(config, x, y)>>

\* C9 (amended): the command of a tick carries 90 and the pan and the tilt
\* of calculate_camera_angles(x, y), each truncated toward zero to an
\* integer, and the zoom of calculate_zoom(x, y), all from the raw (x, y) of
\* this tick's detection and the current config, whatever the earlier ticks
\* were; with the default config (3000, 0, 0.9) gives (129, 0, 50) and
\* (0, 0, 0.6) gives (0, 0, 100).
CommandCarriesTruncatedAngles ==
    (pc = "sleep" /\ Confident(ball_pos)) =>
        LET x == ball_pos[1].x
            y == ball_pos[1].y
            angles == calculate_camera_angles(config, x, y)
        IN /\ TickMessages[1].args =
                  <<90, RatTrunc(angles.pan), RatTrunc(angles.tilt)>>
           /\ TickMessages[2].args = <<calculate_zoom(config, x, y)>>
           /\ (config = DefaultConfig /\ ball_pos = <<Ball(3000, 0, Rat(9, 10))>>) =>
                  (TickMessages[1].args = <<90, 129, 0>> /\ TickMessages[2].args = <<50>>)
           /\ (config = DefaultConfig /\ ball_pos = <<Ball(0, 0, Rat(6, 10))>>) =>
                  (TickMessages[1].args = <<90, 0, 0>> /\ TickMessages[2].args = <<100>>)

\* C9 witness: the second tick dispatched the command of the detection
\* (2000, 1000), whose tilt 29.5 was sent as 29
TruncatedTiltDispatched ==
    /\ pc = "sleep"
    /\ ticks = 1
    /\ config = DefaultConfig
    /\ ball_pos = <<Ball(2000, 1000, Rat(8, 10))>>
    /\ cmd[1].tilt = Rat(59, 2)
    /\ TickMessages = <<Msg("/OBSBOT/WebCam/General/SetGimMotorDegree", <<90, 86, 29>>),
                        Msg("/OBSBOT/WebCam/General/SetZoom", <<69>>)>>

\* C10: the CameraConfig satisfies the data model's invariant in every
\* state: whatever record is loaded and whatever calibration commands are
\* given, an invalid value never becomes part of the config.
ConfigAlwaysValid == ConfigValid(config)

\* C11: every call of receive_ssl_frame made while datagrams are waiting
\* returns the detection of the newest of them: nothing when that frame
\* does not decode or holds no ball, and otherwise a ball of that frame
\* whose confidence is >= that of every ball in it.
NewestFrameReturned ==
    [][(pc = "recv" /\ pc' = "check" /\ queue # <<>>) =>
           LET newest == queue[Len(queue)]
               balls == newest.balls
           IN IF ~newest.ok \/ balls = <<>>
              THEN ball_pos' = <<>>
              ELSE /\ ball_pos' # <<>>
                   /\ \E i \in 1..Len(balls) : balls[i] = ball_pos'[1]
                   /\ \A i \in 1..Len(balls) :
                          RatLe(balls[i].confidence, ball_pos'[1].confidence)]_vars

\* the three phases of the log: the three initialization messages first,
\* then only motor and zoom commands, then at most one Disconnected, which
\* nothing follows
PhasesOrdered ==
    /\ sent = <<>> \/ Len(sent) >= 3
    /\ Len(sent) >= 3 =>
          SubSeq(sent, 1, 3) = <<Connected, SelectDevice, ResetGimbal>>
    /\ \A i \in 4..Len(sent) : IsCommand(sent[i]) \/ sent[i] = Disconnected
    /\ \A i \in 1..Len(sent) : sent[i] = Disconnected => i = Len(sent)

\* the commands of the log are whole pairs SetGimMotorDegree, SetZoom; the
\* last pair may be half sent while move_camera is between its two sends
CommandsPaired ==
    \A i \in 1..Len(sent) :
        /\ IsGim(sent[i]) =>
              \/ i < Len(sent) /\ IsZoom(sent[i + 1])
              \/ i = Len(sent) /\ pc = "zoom"
        /\ IsZoom(sent[i]) => (i > 1 /\ IsGim(sent[i - 1]))

\* C16: in both run modes the log of messages is Connected, SelectDevice,
\* ResetGimbal, then zero or more pairs (SetGimMotorDegree, SetZoom), then
\* at most one Disconnected; no motor or zoom command comes before the
\* three initialization messages or after Disconnected.
LifecycleOrder == PhasesOrdered /\ CommandsPaired

\* the positions of run
InRun == {"run", "handler"} \cup InTry

\* calibration_mode has been entered in this invocation
RanCalibration == pc = "prompt" \/ lines # <<>> \/ exc.at = "prompt"

\* run has been entered in this invocation
RanTracking == pc \in InRun \/ exc.at \in InRun

\* C17: no step of the tracking loop changes a field of the config (so
\* the config of every tick is the config the loop started with) or the
\* file; no step of calibration mode sends a message, and a process that
\* has been in calibration mode has sent no SetGimMotorDegree and no
\* SetZoom; main's selection starts calibration_mode when the argument is
\* --calibrate and run otherwise, never has an invocation been in both
\* modes, and an invocation that returned has been in one.
ModesSeparate ==
    /\ [][(pc \in InRun) => (config' = config /\ file' = file)]_vars
    /\ [][(pc = "prompt") => (sent' = sent)]_vars
    /\ [](RanCalibration => \A i \in 1..Len(sent) : ~IsCommand(sent[i]))
    /\ [][(pc = "select" /\ pc' # "select" /\ stop' = stop) =>
              pc' = IF argv = "--calibrate" THEN "prompt" ELSE "run"]_vars
    /\ [](~(RanCalibration /\ RanTracking))
    /\ [](pc = "returned" => (RanCalibration \/ RanTracking))

\* C17 witness: the second tick of a tracking run on a loaded calibration
\* has dispatched its command, and the config is still the loaded one
LoadedConfigKeptWhileTracking ==
    /\ pc = "sleep"
    /\ ticks = 1
    /\ RanTracking
    /\ config = [DefaultConfig EXCEPT !.pan_scale = Rat(11, 10)]
    /\ Len(sent) = 7
    /\ IsZoom(sent[7])

-----------------------------------------------------------------------------
(* Properties of calibration and persistence (checked under Spec) *)

\* new = old * tenths / 10
ScaledBy(old, new, tenths) == new = Rat(tenths * old.n, 10 * old.d)

\* the step left every attribute of the config except `field` as it was
OnlyFieldChanged(field) ==
    /\ DOMAIN config' = DOMAIN config
    /\ \A k \in DOMAIN config \ {field} : config'[k] = config[k]

\* C12: in calibration mode every step that reads a command changes only
\* what the command names: pan+ / pan- multiply pan_scale by 1.1 / 0.9 and
\* tilt+ / tilt- multiply tilt_scale by 1.1 / 0.9, every other field staying
\* as it was; save and an unrecognized input leave the whole config as it
\* was; after every command but exit the loop is at its prompt again, and
\* the mode returns only by the command exit.
CommandChangesOnlyNamed ==
    /\ [][(pc = "prompt" /\ lines' # lines) =>
              LET line == lines'[Len(lines')]
              IN /\ lines' = Append(lines, line)
                 /\ line = "pan+" =>
                        /\ ScaledBy(config.pan_scale, config'.pan_scale, 11)
                        /\ OnlyFieldChanged("pan_scale")
                 /\ line = "pan-" =>
                        /\ ScaledBy(config.pan_scale, config'.pan_scale, 9)
                        /\ OnlyFieldChanged("pan_scale")
                 /\ line = "tilt+" =>
                        /\ ScaledBy(config.tilt_scale, config'.tilt_scale, 11)
                        /\ OnlyFieldChanged("tilt_scale")
                 /\ line = "tilt-" =>
                        /\ ScaledBy(config.tilt_scale, config'.tilt_scale, 9)
                        /\ OnlyFieldChanged("tilt_scale")
                 /\ line \notin {"pan+", "pan-", "tilt+", "tilt-"} =>
                        config' = config
                 /\ pc' = IF line = "exit" THEN "returned" ELSE "prompt"]_vars
    /\ [][(pc = "prompt" /\ pc' = "returned") =>
              (lines' # lines /\ lines'[Len(lines')] = "exit")]_vars

\* C12 witness: pan+, an unrecognized input, save and tilt- have been
\* given and the loop prompts again
CommandsAppliedAtPrompt ==
    /\ pc = "prompt"
    /\ lines = <<"pan+", "zoom+", "save", "tilt-">>
    /\ config = [DefaultConfig EXCEPT !.pan_scale = Rat(11, 10),
                                      !.tilt_scale = Rat(9, 10)]
    /\ file.state = "ok"
    /\ file.data.pan_scale = [digits |-> 11, places |-> 1]
    /\ file.data.tilt_scale = [digits |-> 10, places |-> 1]

\* the value a number text of the file stands for
NumberOf(text) ==
    IF text.places = 0 THEN text.digits ELSE Rat(text.digits, 10 ^ text.places)

\* C13: load_calibration merges the record of the file field by field
\* onto the config: after it the fields present in the record have the
\* record's values and every other field has the value it had; with the
\* file missing the config stays as it was and the process goes on to the
\* mode selection; and a process started on the file an earlier one saved
\* has, after load_calibration, a config field-for-field equal to the one
\* that was saved.
LoadMergesAndRoundTrips ==
    /\ [][(pc = "load" /\ file.state = "ok") =>
              /\ pc' = "select"
              /\ DOMAIN config' = DOMAIN config \cup DOMAIN file.data
              /\ \A k \in DOMAIN file.data : config'[k] = NumberOf(file.data[k])
              /\ \A k \in DOMAIN config \ DOMAIN file.data : config'[k] = config[k]]_vars
    /\ [][(pc = "load" /\ file.state = "missing") =>
              (pc' = "select" /\ config' = config /\ exc' = NoException)]_vars
    /\ []((pc = "select" /\ prev # <<>>) =>
              /\ DOMAIN config = DOMAIN prev[1]
              /\ \A k \in DOMAIN config : config[k] = prev[1][k])

\* C13 witness: the second invocation has loaded the file the first one
\* saved after pan+, pan+, tilt- on a file that held pan_scale 1.1 only
SavedConfigLoaded ==
    /\ pc = "select"
    /\ lines = <<>>
    /\ prev # <<>>
    /\ config.pan_scale = Rat(1331, 1000)
    /\ config.tilt_scale = Rat(9, 10)
    /\ file.data.pan_scale = [digits |-> 1331, places |-> 3]

\* how many times `line` occurs in a sequence of lines
RECURSIVE Count(_, _)
Count(seq, line) ==
    IF seq = <<>> THEN 0
    ELSE (IF Head(seq) = line THEN 1 ELSE 0) + Count(Tail(seq), line)

\* the value of a scale when this invocation entered calibration_mode,
\* while the invocation has not rewritten the file: the file's value, or
\* the default 1.0
EntryScale(field) ==
    IF file.state = "ok" /\ field \in DOMAIN file.data
    THEN NumberOf(file.data[field]) ELSE RatInt(1)

\* s * 1.1^up * 0.9^down
Compounded(s, up, down) ==
    Rat(s.n * (11 ^ up) * (9 ^ down), s.d * (10 ^ (up + down)))

\* C14: the adjustments compound and do not round-trip.  After any
\* sequence of commands holding `up` pan+ and `down` pan-, in any order,
\* pan_scale is s * 1.1^up * 0.9^down for the scale s the mode was entered
\* with; so after n pan+ and n pan- it is 0.99^n * s, which for s > 0 and
\* n >= 1 is not s.  The same holds for tilt+ / tilt- and tilt_scale.
AdjustmentsCompound ==
    (pc \in {"prompt", "returned"} /\ Count(lines, "save") = 0) =>
        LET ps == EntryScale("pan_scale")
            ts == EntryScale("tilt_scale")
            pup == Count(lines, "pan+")
            pdown == Count(lines, "pan-")
            tup == Count(lines, "tilt+")
            tdown == Count(lines, "tilt-")
        IN /\ config.pan_scale = Compounded(ps, pup, pdown)
           /\ config.tilt_scale = Compounded(ts, tup, tdown)
           /\ (pup = pdown /\ pup >= 1) =>
                  /\ config.pan_scale = Rat(ps.n * (99 ^ pup), ps.d * (100 ^ pup))
                  /\ ps.n > 0 => config.pan_scale # ps
           /\ (tup = tdown /\ tup >= 1) =>
                  /\ config.tilt_scale = Rat(ts.n * (99 ^ tup), ts.d * (100 ^ tup))
                  /\ ts.n > 0 => config.tilt_scale # ts

\* C14 witness: two pan+ and two pan-, interleaved, from the scale 1.1
\* the file held: 0.99^2 * 1.1 = 1.07811
TwoPairsCompounded ==
    /\ pc = "prompt"
    /\ lines = <<"pan+", "pan-", "pan-", "pan+">>
    /\ EntryScale("pan_scale") = Rat(11, 10)
    /\ config.pan_scale = Rat(107811, 100000)

-----------------------------------------------------------------------------
(* Properties of the geometric functions (checked under MapSpec) *)

\* C5: for every position and every pan_scale and tilt_scale the pan is
\* within [-129, 129] and the tilt within [-59, 59], and so are the integers
\* move_camera would send for them.
AnglesWithinTravel ==
    cmd # <<>> =>
        LET pan == cmd[1].pan
            tilt == cmd[1].tilt
            args == SetGimMotorDegree(pan, tilt).args
        IN /\ -129 * pan.d <= pan.n /\ pan.n <= 129 * pan.d
           /\ -59 * tilt.d <= tilt.n /\ tilt.n <= 59 * tilt.d
           /\ -129 <= args[2] /\ args[2] <= 129
           /\ -59 <= args[3] /\ args[3] <= 59

\* C5 witness: a position far outside the field, clamped at both limits
ClampedBothWays ==
    /\ config = DefaultConfig
    /\ ball_pos = <<Ball(-9000, 4000, RatInt(1))>>
    /\ cmd # <<>>
    /\ cmd[1].pan = RatInt(-129)
    /\ cmd[1].tilt = RatInt(59)

\* the exact value of v * scale / (extent/2) * travel, clamped to
\* [-travel, travel]
ExpectedAngle(v, extent, travel, scale) ==
    LET raw == Rat(2 * travel * v * scale.n, extent * scale.d)
    IN IF raw.n > travel * raw.d THEN RatInt(travel)
       ELSE IF raw.n < -travel * raw.d THEN RatInt(-travel)
       ELSE raw

\* C6: pan = clamp(x/(field_width/2) * 129 * pan_scale, -129, 129) and
\* tilt = clamp(y/(field_height/2) * 59 * tilt_scale, -59, 59); with
\* pan_scale = 1 and |x| <= field_width/2 the pan is 129*x/(field_width/2)
\* unclamped, +129 at x = field_width/2 and -129 at x = -field_width/2.
AnglesLinearThenClamped ==
    cmd # <<>> =>
        LET x == ball_pos[1].x
            y == ball_pos[1].y
            pan == cmd[1].pan
            tilt == cmd[1].tilt
        IN /\ pan = ExpectedAngle(x, config.field_width, 129, config.pan_scale)
           /\ tilt = ExpectedAngle(y, config.field_height, 59, config.tilt_scale)
           /\ (config.pan_scale = RatInt(1) /\ 2 * x <= config.field_width
                  /\ -config.field_width <= 2 * x) =>
                 /\ pan.n * config.field_width = 2 * 129 * x * pan.d
                 /\ 2 * x = config.field_width => pan = RatInt(129)
                 /\ 2 * x = -config.field_width => pan = RatInt(-129)

\* C6 witness: one millimetre inside the field edge the pan is 128.957
LinearInsideField ==
    /\ config = DefaultConfig
    /\ ball_pos = <<Ball(2999, 0, RatInt(1))>>
    /\ cmd # <<>>
    /\ cmd[1].pan = Rat(128957, 1000)

\* the configurations the zoom claims are about
ZoomConfigValid(c) ==
    /\ 0 <= c.min_zoom /\ c.min_zoom <= c.max_zoom
    /\ 0 < c.min_distance /\ c.min_distance < c.max_distance

\* C7: for 0 <= min_zoom <= max_zoom and 0 < min_distance < max_distance,
\* the zoom is max_zoom when distance <= min_distance, min_zoom when
\* distance >= max_distance, and otherwise the integer k in
\* [min_zoom, max_zoom] with k <= z < k + 1 for
\* z = max_zoom - (max_zoom - min_zoom) * (distance - min_distance)
\*              / (max_distance - min_distance).
ZoomAsSpecified ==
    (cmd # <<>> /\ ZoomConfigValid(config)) =>
        LET c == config
            r == ball_pos[1].x * ball_pos[1].x + ball_pos[1].y * ball_pos[1].y
            k == cmd[1].zoom
            zr == c.max_zoom - c.min_zoom
            dr == c.max_distance - c.min_distance
            \* k <= z  iff  zr * distance <= (max_zoom - k) * dr + zr * min_distance
            AtMostZ(i) == CmpSqrt((c.max_zoom - i) * dr + zr * c.min_distance, zr, r) >= 0
        IN IF r <= c.min_distance * c.min_distance THEN k = c.max_zoom
           ELSE IF r >= c.max_distance * c.max_distance THEN k = c.min_zoom
           ELSE /\ c.min_zoom <= k /\ k <= c.max_zoom
                /\ AtMostZ(k)
                /\ ~AtMostZ(k + 1)

\* C7 witness: at distance 1234 the interpolation 94.15 is truncated to 94
InterpolatedAndTruncated ==
    /\ config = DefaultConfig
    /\ ball_pos = <<Ball(0, -1234, RatInt(1))>>
    /\ cmd # <<>>
    /\ cmd[1].zoom = 94

\* C8: for a fixed valid configuration the zoom does not increase with the
\* distance: of two evaluations, the one farther from the centre has the
\* smaller or equal zoom.
ZoomMonotone ==
    (cmd # <<>> /\ prev # <<>> /\ ZoomConfigValid(config)) =>
        LET r1 == prev[1].x * prev[1].x + prev[1].y * prev[1].y
            r2 == ball_pos[1].x * ball_pos[1].x + ball_pos[1].y * ball_pos[1].y
        IN /\ r1 <= r2 => prev[1].zoom >= cmd[1].zoom
           /\ r2 <= r1 => cmd[1].zoom >= prev[1].zoom

\* C8 witness: an evaluation beyond max_distance after one in the
\* interpolated range
FartherIsWider ==
    /\ config = DefaultConfig
    /\ prev = <<[x |-> 0, y |-> -1234, zoom |-> 94]>>
    /\ ball_pos = <<Ball(4500, -3000, RatInt(1))>>
    /\ cmd # <<>>
    /\ cmd[1].zoom = 0

\* the configurations with max_distance = min_distance
Degenerate(c) == c.max_distance = c.min_distance

\* C15 (as stated): with max_distance = min_distance there is a position
\* at which calculate_zoom reaches the division by
\* max_distance - min_distance = 0.
DegenerateZoomUndefined ==
    Degenerate(config) =>
        \E p \in MapPositions : ZoomRaises(config, p[1], p[2])

\* C15 (amended): with max_distance = min_distance = d calculate_zoom is
\* defined at every position: it returns max_zoom when the distance is
\* <= d and min_zoom when it is > d, and no evaluation raises
\* ZeroDivisionError, because the division is only reached by a distance
\* with min_distance < distance < max_distance.
DegenerateZoomDefined ==
    Degenerate(config) =>
        /\ exc.type # "ZeroDivisionError"
        /\ cmd # <<>> =>
              LET r == ball_pos[1].x * ball_pos[1].x + ball_pos[1].y * ball_pos[1].y
              IN cmd[1].zoom = IF r <= config.min_distance * config.min_distance
                               THEN config.max_zoom ELSE config.min_zoom

\* C15 witness: min_distance = max_distance = 2000; an evaluation beyond
\* that distance, then one at exactly that distance
DegenerateBoundaryEvaluated ==
    /\ Degenerate(config)
    /\ config.min_distance = 2000
    /\ config.min_zoom = 10
    /\ config.max_zoom = 50
    /\ prev = <<[x |-> 2999, y |-> 0, zoom |-> 10]>>
    /\ ball_pos = <<Ball(1200, -1600, RatInt(1))>>
    /\ cmd # <<>>
    /\ cmd[1].zoom = 50

====
